---- MODULE Spec2Model ----
(***************************************************************************)
(* A model of the electives recommendation system: the university's        *)
(* enrollments (student.py, university.py) and its RecommendationSystem    *)
(* with the Recommendation / RecommendationRating records (recommender.py).*)
(*                                                                         *)
(* Numbers.  The factor matrices hold float64 values; the model keeps them *)
(* in fixed point with Scale units per 1.0, rounding every product down.   *)
(* Hyperparameters are given in thousandths (learning_rate 0.015 = 15).    *)
(*                                                                         *)
(* Keys.  student_number and course_number are strings in the database.    *)
(* DataFrame.to_csv writes them as text and pd.read_csv(index_col=...)     *)
(* infers the type of the index column again: an index whose every key     *)
(* looks like a number comes back as integers, and a .loc lookup with the  *)
(* string key then raises KeyError.  Column headers stay strings.          *)
(***************************************************************************)
EXTENDS Integers, Sequences, FiniteSets, TLC

(* ------------------------------ bounds -------------------------------- *)
\* Enrollments created by Course.add_student in one behaviour.
MaxEnrollments == 3
\* train_model's epochs argument is drawn from 1..MaxEpochs.
MaxEpochs == 2
\* train_model's number_factors argument (the code's default is 20).
NumFactors == 1
\* Recommendation rows in the database below which generate_recommendations
\* is still called.
MaxRecommendations == 1
\* RecommendationRating rows kept in the database.
MaxRecommendationRatings == 2
\* Fixed-point units per 1.0.
Scale == 10

(* ------------------------------ inputs -------------------------------- *)
\* student_number of the registered students; "7" looks like a number.
Students == {"nr1", "7"}
\* university.courses, in relationship (insertion) order.
CourseOrder == <<"MT1173", "MT1174", "ST104a">>
Courses == {CourseOrder[i] : i \in 1..Len(CourseOrder)}
\* Keys that pd.read_csv parses as numbers.
NumericLooking == {"7"}
\* rating arguments tried with rate_course (valid: 1..10).
RatingInputs == {0, 10, 11}
\* (course, student) arguments tried with Course.add_student.
EnrollmentInputs == {<<"MT1173", "nr1">>, <<"MT1173", "7">>, <<"MT1174", "7">>,
                     <<"ST104a", "7">>}
\* number_recommendations arguments tried (valid: 1..3).
NumberInputs == {0, 1, 3, 4}
\* rating_value arguments tried with add_rating; "helpful" is the plain
\* string, which is not a member of the Ratings enumeration.
HELPFUL == "Ratings.HELPFUL"
NOT_HELPFUL == "Ratings.NOT_HELPFUL"
Ratings == {HELPFUL, NOT_HELPFUL}
RatingValueInputs == Ratings \cup {"helpful"}
\* Entries np.random.uniform may draw, in fixed point: 1.0 lies in
\* [0, sqrt(10/number_factors)).
InitValues == {Scale}
\* learning_rate and regularization_parameter arguments, in thousandths.
LearningRates == {15}
RegularizationParameters == {100}

\* The day on which recommender.py is imported and the class Recommendation
\* is defined, and the days the program is followed after it.
ImportDate == 0
MaxDays == 1
\* The errors the list of a thread may hold before its last run starts.
MaxThreadErrors == 2

\* The usernames of the universities that train at the same time; usernames
\* are unique (user.py line 15).
Universities == {"uni1", "uni2"}
\* The files of a RecommendationSystem.
FileKinds == {"student_course", "known_ratings", "model_parameters_Q", "model_parameters_P"}

None == "None"
\* A course_rating that is NULL (an empty cell in the files); a rating that is
\* set is the one-element sequence holding it.
NoRating == <<>>
\* The file pd.DataFrame().to_csv(path, index=False) writes: no header, so
\* pd.read_csv raises EmptyDataError on it.
EmptyFile == [header |-> FALSE, index |-> {}, columns |-> {}, cells |-> <<>>]
\* A parameter file that has not been written yet.
NoFile == [exists |-> FALSE, index |-> {}, rows |-> <<>>]

VARIABLES
  admissions,               \* course.admissions: course -> sequence of StudentCourse
  trained,                  \* RecommendationSystem.trained
  student_course_file,      \* contents of student_course_matrix_path
  known_ratings_file,       \* lines of known_ratings_matrix_path
  Q_file,                   \* contents of model_parameters_path_Q
  P_file,                   \* contents of model_parameters_path_P
  recommendations,          \* rows of table recommendation
  recommendation_ratings,   \* rows of table recommendation_rating
  pc,                       \* position of the train_model call in progress
  run,                      \* locals of the train_model call in progress
  completed,                \* a train_model call has returned
  ret,                      \* outcome of the last call
  today,                    \* datetime.date.today(), in days
  files,                    \* the files of several universities, by path
  systems,                  \* the RecommendationSystem of each university
  thread_errors,            \* the list handed to each university's thread
  catalog                   \* university.courses: the course numbers on offer

vars == <<admissions, trained, student_course_file, known_ratings_file, Q_file,
          P_file, recommendations, recommendation_ratings, pc, run, completed, ret,
          today, files, systems, thread_errors, catalog>>

db == <<admissions, recommendations, recommendation_ratings, catalog>>
views == <<student_course_file, known_ratings_file>>
model == <<Q_file, P_file, trained>>
training == <<pc, run, completed>>
clock == <<today>>
fleet == <<files, systems, thread_errors>>
single == <<clock, db, views, model, training, ret>>

(* ----------------------------- helpers -------------------------------- *)
Min(a, b) == IF a <= b THEN a ELSE b

RECURSIVE SumSeq(_)
SumSeq(s) == IF s = <<>> THEN 0 ELSE Head(s) + SumSeq(Tail(s))

RECURSIVE Concat(_)
Concat(ss) == IF ss = <<>> THEN <<>> ELSE Head(ss) \o Concat(Tail(ss))

\* The enrollments of the database, as (course, position in course.admissions).
Enrollments == {<<c, i>> : c \in Courses, i \in 1..MaxEnrollments} \cap
               {e \in Courses \X (1..MaxEnrollments) : e[2] <= Len(admissions[e[1]])}
NumberEnrollments == SumSeq([i \in 1..Len(CourseOrder) |-> Len(admissions[CourseOrder[i]])])

\* student.enrollments, as the course numbers line 217 of recommender.py reads.
EnrolledIn(student) ==
  {c \in Courses : \E i \in 1..Len(admissions[c]) : admissions[c][i].student = student}
\* course.students
StudentsOf(course) ==
  {admissions[course][i].student : i \in 1..Len(admissions[course])}

\* What a call leaves for its caller: the exception raised ("ok" when none),
\* the arguments the claims refer to, and the value returned.
Ret(op, status, student, n, value) ==
  [op |-> op, status |-> status, student |-> student, n |-> n, value |-> value]

(* ------------------- one system per university ------------------------ *)
\* A variant of lines 41-56 whose default paths leave the username out.
DefaultPathWithoutUsername(username, kind) == <<"data", kind>>

\* Lines 41-56: the default path of a file, f'data/{university.username}_...'.
DefaultPath(username, kind) == <<username, kind>>

Paths == {DefaultPath(u, k) : u \in Universities, k \in FileKinds}

\* RecommendationSystem.__init__ (lines 36-64) as University.__init__ calls it
\* (university.py lines 68-69): no path is passed.
RecommendationSystem(username) ==
  [student_course_matrix_path |-> DefaultPath(username, "student_course"),
   known_ratings_matrix_path |-> DefaultPath(username, "known_ratings"),
   model_parameters_path_Q |-> DefaultPath(username, "model_parameters_Q"),
   model_parameters_path_P |-> DefaultPath(username, "model_parameters_P"),
   trained |-> FALSE,
   pc |-> "idle",
   run |-> None,
   returned |-> <<>>]

\* Lines 60-64: the two view files are written empty; the parameter files
\* do not exist yet.
WrittenByInit(path) ==
  IF path[2] = "student_course" THEN EmptyFile
  ELSE IF path[2] = "known_ratings" THEN <<>>
  ELSE NoFile

(* ------------------------------- Init --------------------------------- *)
\* University.__init__ creates the RecommendationSystem; no course has an
\* admission yet.  The two view files are written from an empty DataFrame and
\* the two parameter files do not exist.
Init ==
  /\ admissions = [c \in Courses |-> <<>>]
  /\ trained = FALSE
  /\ student_course_file = EmptyFile
  /\ known_ratings_file = <<>>
  /\ Q_file = NoFile
  /\ P_file = NoFile
  /\ recommendations = <<>>
  /\ recommendation_ratings = <<>>
  /\ pc = "idle"
  /\ run = None
  /\ completed = FALSE
  /\ ret = Ret("__init__", "ok", None, 0, <<>>)
  /\ today = ImportDate
  /\ files = [path \in Paths |-> WrittenByInit(path)]
  /\ systems = [u \in Universities |-> RecommendationSystem(u)]
  /\ thread_errors = [u \in Universities |-> <<>>]
  /\ catalog = Courses

(* --------------------------- RatingsStore ----------------------------- *)
\* Lines 96-100: one [student_number, course_number, rating] row per admission,
\* courses in university.courses order, admissions in course.admissions order.
AdmissionRows(adm) ==
  Concat([i \in 1..Len(CourseOrder) |->
            [j \in 1..Len(adm[CourseOrder[i]]) |->
               <<adm[CourseOrder[i]][j].student, CourseOrder[i],
                 adm[CourseOrder[i]][j].course_rating>>]])

\* long_df.pivot raises ValueError when two rows share (student, course).
PivotRaises(rows) ==
  \E i, j \in 1..Len(rows) : i # j /\ rows[i][1] = rows[j][1] /\ rows[i][2] = rows[j][2]

\* Line 104: rows = students, columns = courses that occur in some admission,
\* a cell holds the rating of that admission and is empty otherwise.
Pivot(rows) ==
  LET index == {rows[i][1] : i \in 1..Len(rows)}
      columns == {rows[i][2] : i \in 1..Len(rows)}
  IN [header |-> TRUE,
      index |-> index,
      columns |-> columns,
      cells |-> [k \in index \X columns |->
                   IF \E i \in 1..Len(rows) : rows[i][1] = k[1] /\ rows[i][2] = k[2]
                   THEN (CHOOSE r \in {rows[i][3] : i \in {h \in 1..Len(rows) :
                                         rows[h][1] = k[1] /\ rows[h][2] = k[2]}} : TRUE)
                   ELSE NoRating]]

\* A variant of line 105 without the dropna: every row is kept.
KeepAll(rows) == rows

\* Line 105: long_df.dropna() keeps the rows whose rating is set, in order.
DropNa(rows) == SelectSeq(rows, LAMBDA r : r[3] # NoRating)

\* reload_ratings on the admissions adm: the files it leaves and how it ends.
ReloadStatus(adm) == IF PivotRaises(AdmissionRows(adm)) THEN "ValueError" ELSE "ok"
ReloadedMatrixFile(adm) ==
  IF PivotRaises(AdmissionRows(adm)) THEN student_course_file ELSE Pivot(AdmissionRows(adm))
ReloadedKnownFile(adm) ==
  IF PivotRaises(AdmissionRows(adm)) THEN known_ratings_file ELSE DropNa(AdmissionRows(adm))

\* RecommendationSystem.reload_ratings(), called directly.
ReloadRatings ==
  /\ NumberEnrollments > 0
  /\ student_course_file' = ReloadedMatrixFile(admissions)
  /\ known_ratings_file' = ReloadedKnownFile(admissions)
  /\ ret' = Ret("reload_ratings", ReloadStatus(admissions), None, 0, <<>>)
  /\ UNCHANGED <<clock, fleet, db, model, training>>

(* --------------------------- the database ----------------------------- *)
\* Course.add_student(student, start_date), for a student of this university
\* (the assertion of line 257 holds).  A student may be enrolled in a course
\* again: start_date is part of the primary key of StudentCourse.
AddStudent(course, student) ==
  /\ NumberEnrollments < MaxEnrollments
  /\ admissions' = [admissions EXCEPT
                      ![course] = Append(@, [student |-> student, course_rating |-> NoRating])]
  /\ ret' = Ret("add_student", "ok", None, 0, <<>>)
  /\ UNCHANGED <<clock, fleet, catalog, recommendations, recommendation_ratings, views, model, training>>

\* A variant of the checks of lines 94-95 without the check of line 95.
RateCourseValidRatingOnly(student, enrollment, rating) == rating \in 1..10

\* The checks of lines 94-95 of student.py.
RateCourseValid(student, enrollment, rating) ==
  /\ rating \in 1..10
  /\ admissions[enrollment[1]][enrollment[2]].student = student

\* A variant of rate_course without the test of line 99: the views are
\* reloaded whatever reload_ratings is.
RateCourseAlwaysReloads(student, enrollment, rating, reload) ==
  /\ enrollment \in Enrollments
  /\ IF ~RateCourseValid(student, enrollment, rating)
     THEN /\ ret' = Ret("rate_course", "AssertionError", None, 0, <<>>)
          /\ UNCHANGED <<clock, fleet, db, views, model, training>>
     ELSE LET adm == [admissions EXCEPT
                        ![enrollment[1]][enrollment[2]].course_rating = <<rating>>]
          IN /\ admissions' = adm
             /\ student_course_file' = ReloadedMatrixFile(adm)
             /\ known_ratings_file' = ReloadedKnownFile(adm)
             /\ ret' = Ret("rate_course", ReloadStatus(adm), None, 0, <<>>)
             /\ UNCHANGED <<clock, fleet, catalog, recommendations, recommendation_ratings, model, training>>

\* Student.rate_course(enrollment, rating, session, reload_ratings=reload)
RateCourse(student, enrollment, rating, reload) ==
  /\ enrollment \in Enrollments
  /\ IF ~RateCourseValid(student, enrollment, rating)
     THEN /\ ret' = Ret("rate_course", "AssertionError", None, 0, <<>>)
          /\ UNCHANGED <<clock, fleet, db, views, model, training>>
     ELSE LET adm == [admissions EXCEPT
                        ![enrollment[1]][enrollment[2]].course_rating = <<rating>>]
          IN /\ admissions' = adm
             /\ student_course_file' =
                  IF reload THEN ReloadedMatrixFile(adm) ELSE student_course_file
             /\ known_ratings_file' =
                  IF reload THEN ReloadedKnownFile(adm) ELSE known_ratings_file
             /\ ret' = Ret("rate_course", IF reload THEN ReloadStatus(adm) ELSE "ok",
                           None, 0, <<>>)
             /\ UNCHANGED <<clock, fleet, catalog, recommendations, recommendation_ratings, model, training>>

(* ------------------------------ files --------------------------------- *)
\* pd.read_csv(..., index_col=...) infers the index type from the text: an
\* index whose keys all look like numbers is read as integers.
IndexIsNumeric(index) == index # {} /\ index \subseteq NumericLooking

\* The property student_course_matrix: None for the file __init__ wrote
\* (EmptyDataError), else the frame with its index typed by read_csv.
student_course_matrix ==
  [none |-> ~student_course_file.header,
   index |-> student_course_file.index,
   numeric |-> IndexIsNumeric(student_course_file.index),
   columns |-> student_course_file.columns,
   cells |-> student_course_file.cells]

\* DataFrame.to_csv(path, index=True) of a factor matrix: keys become text.
ToCsv(M) == [exists |-> TRUE, index |-> M.index, rows |-> M.rows]
\* pd.read_csv(path, index_col=...) of a factor file.
ReadCsv(file) ==
  [index |-> file.index, numeric |-> IndexIsNumeric(file.index), rows |-> file.rows]

\* M.loc[key] with a string key: KeyError unless the index holds that string.
HasRow(M, key) == key \in M.index /\ ~M.numeric
Loc(M, key) == M.rows[key]

(* ----------------------------- arithmetic ----------------------------- *)
\* np.dot(q, p) of two fixed-point vectors.
Dot(q, p) == SumSeq([k \in 1..Len(q) |-> q[k] * p[k]]) \div Scale
\* float(rating) of a line of the known-ratings file.
Float(rating) == rating * Scale
\* A variant of lines 182-183 that sums the squares of the rows some known
\* rating names, and leaves the other rows out.
SumSquaresOfRatedRows(M) ==
  LET rated == {known_ratings_file[i][1] : i \in 1..Len(known_ratings_file)} \cup
               {known_ratings_file[i][2] : i \in 1..Len(known_ratings_file)}
      RECURSIVE Over(_)
      Over(keys) == IF keys = {} THEN 0
                    ELSE LET k == CHOOSE x \in keys : TRUE
                         IN SumSeq([f \in 1..Len(M.rows[k]) |->
                                      (M.rows[k][f] * M.rows[k][f]) \div Scale])
                            + Over(keys \ {k})
  IN Over(M.index \cap rated)

\* sum of the squares of every entry of a matrix (lines 182-183).
SumSquares(M) ==
  LET RECURSIVE Over(_)
      Over(keys) == IF keys = {} THEN 0
                    ELSE LET k == CHOOSE x \in keys : TRUE
                         IN SumSeq([f \in 1..Len(M.rows[k]) |->
                                      (M.rows[k][f] * M.rows[k][f]) \div Scale])
                            + Over(keys \ {k})
  IN Over(M.index)

(* ------------------------------ Trainer ------------------------------- *)
\* A variant of lines 131-135 that continues from the saved matrix when one
\* with the same index exists.
InitMatricesContinued(index) ==
  IF Q_file.exists /\ Q_file.index = index THEN {Q_file.rows}
  ELSE IF P_file.exists /\ P_file.index = index THEN {P_file.rows}
  ELSE {[k \in index |-> [f \in 1..NumFactors |-> v]] : v \in InitValues}

\* The matrices np.random.uniform may produce for an index (lines 131-135);
\* the draws tried give every entry of a matrix the same value.
InitMatrices(index) ==
  {[k \in index |-> [f \in 1..NumFactors |-> v]] : v \in InitValues}

\* Lines 124-137: read the matrix, initialise Q and P, open the ratings file.
TrainModel(regularization_parameter, epochs, learning_rate) ==
  /\ pc = "idle"
  /\ IF student_course_matrix.none
     THEN /\ ret' = Ret("train_model", "AttributeError", None, epochs, <<>>)
          /\ UNCHANGED <<clock, fleet, db, views, model, training>>
     ELSE \E q \in InitMatrices(student_course_matrix.columns),
             p \in InitMatrices(student_course_matrix.index) :
            /\ run' = [Q |-> [index |-> student_course_matrix.columns,
                              numeric |-> FALSE, rows |-> q],
                       P |-> [index |-> student_course_matrix.index,
                              numeric |-> student_course_matrix.numeric, rows |-> p],
                       errors |-> <<>>, epoch |-> 0, line |-> 1,
                       epochs |-> epochs, learning_rate |-> learning_rate,
                       regularization_parameter |-> regularization_parameter]
            /\ pc' = IF epochs = 0 THEN "save_Q" ELSE "sgd"
            /\ ret' = Ret("train_model", "running", None, epochs, <<>>)
            /\ UNCHANGED <<clock, fleet, db, views, model, completed>>

\* train_model raises: its locals are dropped, nothing is saved.
TrainRaises(status) ==
  /\ pc' = "idle"
  /\ run' = None
  /\ ret' = Ret("train_model", status, None, run.epochs, <<>>)
  /\ UNCHANGED <<clock, fleet, db, views, model, completed>>

\* Lines 152-160: the rows after the update for a rating.
Epsilon(q, p, rating) == 2 * (Float(rating) - Dot(q, p))
Update(a, b, epsilon, learning_rate, regularization_parameter) ==
  [k \in 1..Len(a) |->
     a[k] + (learning_rate *
               (((epsilon * b[k]) \div Scale)
                - ((2 * regularization_parameter * a[k]) \div 1000))) \div 1000]

\* A variant of lines 143-164 in which the row of P is updated with the row
\* of Q that the step has just computed.
SGDStepUsesUpdatedQ ==
  /\ pc = "sgd"
  /\ run.line <= Len(known_ratings_file)
  /\ LET student_number == known_ratings_file[run.line][1]
         course_number == known_ratings_file[run.line][2]
         rating == known_ratings_file[run.line][3][1]
     IN IF ~HasRow(run.Q, course_number) \/ ~HasRow(run.P, student_number)
        THEN TrainRaises("KeyError")
        ELSE LET q == Loc(run.Q, course_number)
                 p == Loc(run.P, student_number)
                 epsilon == Epsilon(q, p, rating)
                 new_q == Update(q, p, epsilon, run.learning_rate,
                                 run.regularization_parameter)
                 new_p == Update(p, new_q, epsilon, run.learning_rate,
                                 run.regularization_parameter)
             IN /\ run' = [run EXCEPT !.Q.rows[course_number] = new_q,
                                      !.P.rows[student_number] = new_p,
                                      !.line = @ + 1]
                /\ UNCHANGED <<clock, fleet, db, views, model, pc, completed, ret>>

\* A variant of lines 143-164 that passes over a rating whose course or
\* student has no row, instead of raising.
SGDStepSkipsMissingRows ==
  /\ pc = "sgd"
  /\ run.line <= Len(known_ratings_file)
  /\ LET student_number == known_ratings_file[run.line][1]
         course_number == known_ratings_file[run.line][2]
         rating == known_ratings_file[run.line][3][1]
     IN IF ~HasRow(run.Q, course_number) \/ ~HasRow(run.P, student_number)
        THEN /\ run' = [run EXCEPT !.line = @ + 1]
             /\ UNCHANGED <<clock, fleet, db, views, model, pc, completed, ret>>
        ELSE LET q == Loc(run.Q, course_number)
                 p == Loc(run.P, student_number)
                 epsilon == Epsilon(q, p, rating)
                 new_q == Update(q, p, epsilon, run.learning_rate,
                                 run.regularization_parameter)
                 new_p == Update(p, q, epsilon, run.learning_rate,
                                 run.regularization_parameter)
             IN /\ run' = [run EXCEPT !.Q.rows[course_number] = new_q,
                                      !.P.rows[student_number] = new_p,
                                      !.line = @ + 1]
                /\ UNCHANGED <<clock, fleet, db, views, model, pc, completed, ret>>

\* Lines 143-164: one line of the known-ratings file.
SGDStep ==
  /\ pc = "sgd"
  /\ run.line <= Len(known_ratings_file)
  /\ LET student_number == known_ratings_file[run.line][1]
         course_number == known_ratings_file[run.line][2]
         rating == known_ratings_file[run.line][3][1]
     IN IF ~HasRow(run.Q, course_number) \/ ~HasRow(run.P, student_number)
        THEN TrainRaises("KeyError")
        ELSE LET q == Loc(run.Q, course_number)
                 p == Loc(run.P, student_number)
                 epsilon == Epsilon(q, p, rating)
                 new_q == Update(q, p, epsilon, run.learning_rate,
                                 run.regularization_parameter)
                 new_p == Update(p, q, epsilon, run.learning_rate,
                                 run.regularization_parameter)
             IN /\ run' = [run EXCEPT !.Q.rows[course_number] = new_q,
                                      !.P.rows[student_number] = new_p,
                                      !.line = @ + 1]
                /\ UNCHANGED <<clock, fleet, db, views, model, pc, completed, ret>>

\* Lines 167-183: the error of the epoch over the known ratings.
EpochErrorValue(Q, P, lines, regularization_parameter) ==
  SumSeq([i \in 1..Len(lines) |->
            LET d == Float(lines[i][3][1]) - Dot(Loc(Q, lines[i][2]), Loc(P, lines[i][1]))
            IN (d * d) \div Scale])
  + (regularization_parameter * SumSquares(Q)) \div 1000
  + (regularization_parameter * SumSquares(P)) \div 1000

\* A variant of lines 166-187 without the f.seek(0) of line 187: the next
\* epoch finds the file at its end.
EpochErrorWithoutRewind ==
  /\ pc = "sgd"
  /\ run.line > Len(known_ratings_file)
  /\ IF \E i \in 1..Len(known_ratings_file) :
          \/ ~HasRow(run.Q, known_ratings_file[i][2])
          \/ ~HasRow(run.P, known_ratings_file[i][1])
     THEN TrainRaises("KeyError")
     ELSE /\ run' = [run EXCEPT
                       !.errors = Append(@, EpochErrorValue(run.Q, run.P, known_ratings_file,
                                                            run.regularization_parameter)),
                       !.epoch = @ + 1]
          /\ pc' = IF run.epoch + 1 = run.epochs THEN "save_Q" ELSE "sgd"
          /\ UNCHANGED <<clock, fleet, db, views, model, completed, ret>>

\* Lines 166-187: end of the pass over the file; the error is appended and
\* the file is rewound for the next epoch.
EpochError ==
  /\ pc = "sgd"
  /\ run.line > Len(known_ratings_file)
  /\ IF \E i \in 1..Len(known_ratings_file) :
          \/ ~HasRow(run.Q, known_ratings_file[i][2])
          \/ ~HasRow(run.P, known_ratings_file[i][1])
     THEN TrainRaises("KeyError")
     ELSE /\ run' = [run EXCEPT
                       !.errors = Append(@, EpochErrorValue(run.Q, run.P, known_ratings_file,
                                                            run.regularization_parameter)),
                       !.epoch = @ + 1,
                       !.line = 1]
          /\ pc' = IF run.epoch + 1 = run.epochs THEN "save_Q" ELSE "sgd"
          /\ UNCHANGED <<clock, fleet, db, views, model, completed, ret>>

\* A variant of line 190 that sets the flag as soon as Q is saved.
SaveQSetsTrained ==
  /\ pc = "save_Q"
  /\ Q_file' = ToCsv(run.Q)
  /\ trained' = TRUE
  /\ pc' = "save_P"
  /\ UNCHANGED <<clock, fleet, db, views, P_file, run, completed, ret>>

\* Line 190
SaveQ ==
  /\ pc = "save_Q"
  /\ Q_file' = ToCsv(run.Q)
  /\ pc' = "save_P"
  /\ UNCHANGED <<clock, fleet, db, views, P_file, trained, run, completed, ret>>

\* Line 191
SaveP ==
  /\ pc = "save_P"
  /\ P_file' = ToCsv(run.P)
  /\ pc' = "set_trained"
  /\ UNCHANGED <<clock, fleet, db, views, Q_file, trained, run, completed, ret>>

\* Lines 193-200: set the flag and return the errors.
TrainReturn ==
  /\ pc = "set_trained"
  /\ trained' = TRUE
  /\ pc' = "idle"
  /\ run' = None
  /\ completed' = TRUE
  /\ ret' = Ret("train_model", "ok", None, run.epochs, run.errors)
  /\ UNCHANGED <<clock, fleet, db, views, Q_file, P_file>>

(* ----------------------------- Recommender ---------------------------- *)
\* The property parameters (lines 81-88): both files read with pd.read_csv.
parameters == [Q |-> ReadCsv(Q_file), P |-> ReadCsv(P_file)]

\* A variant of lines 216-219 that takes the student's courses from the cells
\* of the matrix that hold a rating instead of from student.enrollments.
NotEnrolledInCoursesByCells(student) ==
  {c \in student_course_matrix.columns :
     \/ student \notin student_course_matrix.index
     \/ student_course_matrix.cells[<<student, c>>] = NoRating}

\* A variant of lines 216-219 that also leaves out the courses without a row
\* in the saved Q.
NotEnrolledInCoursesWithRow(student) ==
  (student_course_matrix.columns \ EnrolledIn(student)) \cap parameters.Q.index

\* Lines 216-219
NotEnrolledInCourses(student) == student_course_matrix.columns \ EnrolledIn(student)

\* Line 225: Q @ P.loc[student_number].T, one predicted rating per row of Q.
PredictedRatings(Q, p) == [c \in Q.index |-> Dot(Q.rows[c], p)]

RECURSIVE Orderings(_)
Orderings(S) ==
  IF S = {} THEN {<<>>}
  ELSE UNION {{<<x>> \o t : t \in Orderings(S \ {x})} : x \in S}

\* A variant of line 226 with sort_values(ascending=True).
SortValuesAscending(labels, value) ==
  {o \in Orderings(labels) :
     \A i \in 1..(Len(o) - 1) : value[o[i]] <= value[o[i + 1]]}

\* sort_values(ascending=False): the orders of the labels in which the values
\* do not increase; equal values may come out in either order.
SortValuesDescending(labels, value) ==
  {o \in Orderings(labels) :
     \A i \in 1..(Len(o) - 1) : value[o[i]] >= value[o[i + 1]]}

\* .head(n)
Head_(o, n) == SubSeq(o, 1, Min(n, Len(o)))

\* The default of the parameter date_generated (line 255): date.today() is
\* evaluated once, when the def statement runs at import.
DateGeneratedDefault == ImportDate

\* Recommendation.__init__ (lines 255-260), called without date_generated
\* (lines 229-231); correctness_probability is kept as the predicted rating,
\* the probability being that rating / 20.
Recommendation(student, course, rating) ==
  [student |-> student, course |-> course, correctness_probability_x20 |-> rating,
   date_generated |-> DateGeneratedDefault]

\* University.find_course (university.py lines 87-100): the course of this
\* university with that number, or None.
FindCourse(course_number) ==
  IF course_number \in catalog THEN course_number ELSE None

GenerateRaises(status, student, n) ==
  /\ ret' = Ret("generate_recommendations", status, student, n, <<>>)
  /\ UNCHANGED <<clock, fleet, db, views, model, training>>

\* Variants of the checks of lines 212-213: an upper limit of 4, and no check
\* of self.trained.
NumberIsValidUpTo4(number_recommendations) == number_recommendations \in 1..4
TrainedNotChecked == TRUE

\* The precondition checks of lines 212-213.
NumberIsValid(number_recommendations) == number_recommendations \in 1..3
ModelIsTrained == trained

\* RecommendationSystem.generate_recommendations(student, session, n), with
\* the session.add_all of Student.generate_recommendations.
GenerateRecommendations(student, number_recommendations) ==
  /\ Len(recommendations) < MaxRecommendations
  /\ IF ~NumberIsValid(number_recommendations) \/ ~ModelIsTrained
     THEN GenerateRaises("AssertionError", student, number_recommendations)
     ELSE IF student_course_matrix.none
     THEN GenerateRaises("AttributeError", student, number_recommendations)
     ELSE IF ~Q_file.exists \/ ~P_file.exists
     THEN GenerateRaises("FileNotFoundError", student, number_recommendations)
     ELSE IF ~HasRow(parameters.P, student)
     THEN GenerateRaises("KeyError", student, number_recommendations)
     ELSE IF \E c \in NotEnrolledInCourses(student) : ~HasRow(parameters.Q, c)
     THEN GenerateRaises("KeyError", student, number_recommendations)
     ELSE LET not_enrolled_in_courses == NotEnrolledInCourses(student)
              n == Min(number_recommendations, Cardinality(not_enrolled_in_courses))
              predicted_ratings ==
                PredictedRatings(parameters.Q, Loc(parameters.P, student))
          IN \E o \in SortValuesDescending(not_enrolled_in_courses, predicted_ratings) :
               LET new == [i \in 1..Len(Head_(o, n)) |->
                             Recommendation(student, FindCourse(Head_(o, n)[i]),
                                            predicted_ratings[Head_(o, n)[i]])]
               IN /\ recommendations' = recommendations \o new
                  /\ ret' = Ret("generate_recommendations", "ok", student,
                                number_recommendations, new)
                  /\ UNCHANGED <<clock, fleet, catalog, admissions, recommendation_ratings, views, model, training>>

(* -------------------------- FeedbackRecorder -------------------------- *)
\* RecommendationRating.__init__ (lines 306-310)
RecommendationRating(recommendation, rating) ==
  [recommendation |-> recommendation, rating |-> rating]

\* Recommendation.rating: the rows linked to recommendation i (uselist=False).
RatingsOf(i) ==
  {j \in 1..Len(recommendation_ratings) : recommendation_ratings[j].recommendation = i}

\* Line 270.  Setting RecommendationRating.recommendation makes the one-to-one
\* relationship (lines 253, 304) point Recommendation.rating at the new row
\* and clears the recommendation of the row it pointed at before.
SetRating(i, rating_value) ==
  Append([j \in 1..Len(recommendation_ratings) |->
            IF recommendation_ratings[j].recommendation = i
            THEN [recommendation_ratings[j] EXCEPT !.recommendation = 0]
            ELSE recommendation_ratings[j]],
         RecommendationRating(i, rating_value))

\* The check of line 269.
RatingValueIsValid(rating_value) == rating_value \in Ratings

\* Recommendation.add_rating(rating_value, session) on recommendation i.
AddRating(i, rating_value) ==
  /\ i \in 1..Len(recommendations)
  /\ IF ~RatingValueIsValid(rating_value)
     THEN /\ ret' = Ret("add_rating", "AssertionError", None, i, <<>>)
          /\ UNCHANGED <<clock, fleet, db, views, model, training>>
     ELSE /\ Len(recommendation_ratings) < MaxRecommendationRatings
          /\ recommendation_ratings' = SetRating(i, rating_value)
          /\ ret' = Ret("add_rating", "ok", None, i, <<>>)
          /\ UNCHANGED <<clock, fleet, catalog, admissions, recommendations, views, model, training>>

(* ----------------------------- the catalog ---------------------------- *)
\* University.add_course (university.py lines 171-188) for a number the
\* university does not offer (UniqueConstraint, line 235).
AddCourse(course) ==
  /\ course \notin catalog
  /\ catalog' = catalog \cup {course}
  /\ ret' = Ret("add_course", "ok", None, 0, <<>>)
  /\ UNCHANGED <<clock, fleet, admissions, recommendations, recommendation_ratings,
                 views, model, training>>

\* University.delete_course (university.py lines 132-142): the course goes,
\* and its admissions with it (cascade, line 232).
DeleteCourse(course) ==
  /\ course \in catalog
  /\ catalog' = catalog \ {course}
  /\ admissions' = [admissions EXCEPT ![course] = <<>>]
  /\ ret' = Ret("delete_course", "ok", None, 0, <<>>)
  /\ UNCHANGED <<clock, fleet, recommendations, recommendation_ratings, views, model,
                 training>>

(* ------------------------------ the clock ----------------------------- *)
\* Midnight passes while the program runs.
NextDay ==
  /\ today < ImportDate + MaxDays
  /\ today' = today + 1
  /\ UNCHANGED <<fleet, db, views, model, training, ret>>

(* ------------- train_model of several universities, in threads -------- *)
\* Admission tables of a university tried at a reload.
AdmissionsInputs ==
  {[c \in Courses |->
      IF c = "MT1173" THEN <<[student |-> "nr1", course_rating |-> <<10>>]>> ELSE <<>>],
   [c \in Courses |->
      IF c = "MT1173" THEN <<[student |-> "nr1", course_rating |-> <<10>>]>>
      ELSE IF c = "MT1174" THEN <<[student |-> "nr1", course_rating |-> NoRating]>>
      ELSE <<>>]}

\* reload_ratings (lines 90-108) of the system of university u, whose courses
\* have the admissions adm.
ReloadRatingsOf(u, adm) ==
  /\ systems[u].pc = "idle"
  /\ ~PivotRaises(AdmissionRows(adm))
  /\ files' = [files EXCEPT
                 ![systems[u].student_course_matrix_path] = Pivot(AdmissionRows(adm)),
                 ![systems[u].known_ratings_matrix_path] = DropNa(AdmissionRows(adm))]
  /\ UNCHANGED <<systems, thread_errors, single>>

\* Lines 124-137 in the thread of university u.
TrainModelOf(u, regularization_parameter, epochs, learning_rate) ==
  /\ systems[u].pc = "idle"
  /\ Len(thread_errors[u]) + epochs <= MaxThreadErrors
  /\ LET matrix == files[systems[u].student_course_matrix_path]
     IN /\ matrix.header
        /\ \E q \in InitMatrices(matrix.columns), p \in InitMatrices(matrix.index) :
             systems' = [systems EXCEPT
                           ![u].run = [Q |-> [index |-> matrix.columns,
                                              numeric |-> FALSE, rows |-> q],
                                       P |-> [index |-> matrix.index,
                                              numeric |-> IndexIsNumeric(matrix.index),
                                              rows |-> p],
                                       errors |-> <<>>, epoch |-> 0, line |-> 1,
                                       epochs |-> epochs, learning_rate |-> learning_rate,
                                       regularization_parameter |-> regularization_parameter],
                           ![u].pc = IF epochs = 0 THEN "save_Q" ELSE "sgd"]
  /\ UNCHANGED <<files, thread_errors, single>>

\* train_model of university u raises.
TrainRaisesOf(u) ==
  /\ systems' = [systems EXCEPT ![u].pc = "idle", ![u].run = None]
  /\ UNCHANGED <<files, thread_errors, single>>

\* Lines 143-164 in the thread of university u.
SGDStepOf(u) ==
  LET run_u == systems[u].run
      known == files[systems[u].known_ratings_matrix_path]
  IN /\ systems[u].pc = "sgd"
     /\ run_u.line <= Len(known)
     /\ LET student_number == known[run_u.line][1]
            course_number == known[run_u.line][2]
            rating == known[run_u.line][3][1]
        IN IF ~HasRow(run_u.Q, course_number) \/ ~HasRow(run_u.P, student_number)
           THEN TrainRaisesOf(u)
           ELSE LET q == Loc(run_u.Q, course_number)
                    p == Loc(run_u.P, student_number)
                    epsilon == Epsilon(q, p, rating)
                    new_q == Update(q, p, epsilon, run_u.learning_rate,
                                    run_u.regularization_parameter)
                    new_p == Update(p, q, epsilon, run_u.learning_rate,
                                    run_u.regularization_parameter)
                IN /\ systems' = [systems EXCEPT
                                    ![u].run.Q.rows[course_number] = new_q,
                                    ![u].run.P.rows[student_number] = new_p,
                                    ![u].run.line = @ + 1]
                   /\ UNCHANGED <<files, thread_errors, single>>

\* Lines 166-187 in the thread of university u.
EpochErrorOf(u) ==
  LET run_u == systems[u].run
      known == files[systems[u].known_ratings_matrix_path]
  IN /\ systems[u].pc = "sgd"
     /\ run_u.line > Len(known)
     /\ IF \E i \in 1..Len(known) :
             ~HasRow(run_u.Q, known[i][2]) \/ ~HasRow(run_u.P, known[i][1])
        THEN TrainRaisesOf(u)
        ELSE /\ systems' = [systems EXCEPT
                              ![u].run.errors =
                                 Append(@, EpochErrorValue(run_u.Q, run_u.P, known,
                                                           run_u.regularization_parameter)),
                              ![u].run.epoch = @ + 1,
                              ![u].run.line = 1,
                              ![u].pc = IF run_u.epoch + 1 = run_u.epochs
                                        THEN "save_Q" ELSE "sgd"]
             /\ UNCHANGED <<files, thread_errors, single>>

\* Line 190 in the thread of university u.
SaveQOf(u) ==
  /\ systems[u].pc = "save_Q"
  /\ files' = [files EXCEPT ![systems[u].model_parameters_path_Q] = ToCsv(systems[u].run.Q)]
  /\ systems' = [systems EXCEPT ![u].pc = "save_P"]
  /\ UNCHANGED <<thread_errors, single>>

\* Line 191 in the thread of university u.
SavePOf(u) ==
  /\ systems[u].pc = "save_P"
  /\ files' = [files EXCEPT ![systems[u].model_parameters_path_P] = ToCsv(systems[u].run.P)]
  /\ systems' = [systems EXCEPT ![u].pc = "set_trained"]
  /\ UNCHANGED <<thread_errors, single>>

\* Lines 193-200 in the thread of university u, called with the list
\* thread_errors[u].
TrainReturnOf(u) ==
  /\ systems[u].pc = "set_trained"
  /\ systems' = [systems EXCEPT ![u].trained = TRUE,
                                ![u].pc = "idle",
                                ![u].run = None,
                                ![u].returned = systems[u].run.errors]
  /\ thread_errors' = [thread_errors EXCEPT ![u] = @ \o systems[u].run.errors]
  /\ UNCHANGED <<files, single>>

\* A step of the train_model call of university u.
TrainStepOf(u) ==
  \/ \E reg \in RegularizationParameters, epochs \in 1..MaxEpochs, lr \in LearningRates :
        TrainModelOf(u, reg, epochs, lr)
  \/ SGDStepOf(u)
  \/ EpochErrorOf(u)
  \/ SaveQOf(u)
  \/ SavePOf(u)
  \/ TrainReturnOf(u)

\* The caller makes one call at a time and waits for train_model to return.
Sequential == pc = "idle"
\* The student has no enrollment in the course yet.
FirstEnrollment(course, student) == student \notin StudentsOf(course)

Next ==
  \/ \E e \in EnrollmentInputs :
        Sequential /\ FirstEnrollment(e[1], e[2]) /\ AddStudent(e[1], e[2])
  \/ \E s \in Students, e \in Courses \X (1..MaxEnrollments), r \in RatingInputs,
        reload \in BOOLEAN : Sequential /\ RateCourse(s, e, r, reload)
  \/ Sequential /\ ReloadRatings
  \/ \E reg \in RegularizationParameters, epochs \in 1..MaxEpochs, lr \in LearningRates :
        TrainModel(reg, epochs, lr)
  \/ SGDStep
  \/ EpochError
  \/ SaveQ
  \/ SaveP
  \/ TrainReturn
  \/ \E s \in Students, n \in NumberInputs :
        Sequential /\ GenerateRecommendations(s, n)

Spec == Init /\ [][Next]_vars

\* The whole system, FeedbackRecorder included, on a smaller university.
SmallEnrollmentInputs == {<<"MT1173", "nr1">>, <<"MT1174", "7">>}
NextAll ==
  \/ \E e \in SmallEnrollmentInputs :
        Sequential /\ FirstEnrollment(e[1], e[2]) /\ AddStudent(e[1], e[2])
  \/ \E s \in Students, e \in Courses \X (1..MaxEnrollments), r \in RatingInputs,
        reload \in BOOLEAN : Sequential /\ RateCourse(s, e, r, reload)
  \/ Sequential /\ ReloadRatings
  \/ \E reg \in RegularizationParameters, epochs \in 1..MaxEpochs, lr \in LearningRates :
        TrainModel(reg, epochs, lr)
  \/ SGDStep
  \/ EpochError
  \/ SaveQ
  \/ SaveP
  \/ TrainReturn
  \/ \E s \in Students, n \in NumberInputs :
        Sequential /\ GenerateRecommendations(s, n)
  \/ \E i \in 1..(MaxRecommendations + 2), v \in RatingValueInputs :
        Sequential /\ AddRating(i, v)

SpecAll == Init /\ [][NextAll]_vars

\* Enrollments and ratings only; a student may enrol in a course again.
NextReenrol ==
  \/ \E e \in SmallEnrollmentInputs : Sequential /\ AddStudent(e[1], e[2])
  \/ \E s \in Students, e \in Courses \X (1..MaxEnrollments), r \in RatingInputs,
        reload \in BOOLEAN : Sequential /\ RateCourse(s, e, r, reload)
  \/ Sequential /\ ReloadRatings

SpecReenrol == Init /\ [][NextReenrol]_vars

\* train_model runs in a thread of its own (its thread_errors argument is for
\* that use) while the caller goes on making calls on the smaller university.
NextThreads ==
  \/ \E e \in SmallEnrollmentInputs : FirstEnrollment(e[1], e[2]) /\ AddStudent(e[1], e[2])
  \/ \E s \in Students, e \in Courses \X (1..MaxEnrollments), r \in RatingInputs,
        reload \in BOOLEAN : RateCourse(s, e, r, reload)
  \/ ReloadRatings
  \/ \E reg \in RegularizationParameters, epochs \in 1..MaxEpochs, lr \in LearningRates :
        TrainModel(reg, epochs, lr)
  \/ SGDStep
  \/ EpochError
  \/ SaveQ
  \/ SaveP
  \/ TrainReturn
  \/ \E s \in Students, n \in NumberInputs : GenerateRecommendations(s, n)

SpecThreads == Init /\ [][NextThreads]_vars

\* The sequential caller on the smaller university, trying a learning_rate of
\* 0.5 besides the default, for one epoch.
LearningRateInputs == LearningRates \cup {500}
NextRates ==
  \/ \E e \in SmallEnrollmentInputs :
        Sequential /\ FirstEnrollment(e[1], e[2]) /\ AddStudent(e[1], e[2])
  \/ \E s \in Students, e \in Courses \X (1..MaxEnrollments), r \in RatingInputs,
        reload \in BOOLEAN : Sequential /\ RateCourse(s, e, r, reload)
  \/ Sequential /\ ReloadRatings
  \/ \E reg \in RegularizationParameters, epochs \in {1},
        lr \in LearningRateInputs : TrainModel(reg, epochs, lr)
  \/ SGDStep
  \/ EpochError
  \/ SaveQ
  \/ SaveP
  \/ TrainReturn
  \/ \E s \in Students, n \in NumberInputs :
        Sequential /\ GenerateRecommendations(s, n)

SpecRates == Init /\ [][NextRates]_vars

\* The sequential caller on the smaller university, for one epoch, while the
\* days pass.
NextDays ==
  \/ \E e \in SmallEnrollmentInputs :
        Sequential /\ FirstEnrollment(e[1], e[2]) /\ AddStudent(e[1], e[2])
  \/ \E s \in Students, e \in Courses \X (1..MaxEnrollments), r \in RatingInputs,
        reload \in BOOLEAN : Sequential /\ RateCourse(s, e, r, reload)
  \/ Sequential /\ ReloadRatings
  \/ \E reg \in RegularizationParameters, epochs \in {1}, lr \in LearningRates :
        TrainModel(reg, epochs, lr)
  \/ SGDStep
  \/ EpochError
  \/ SaveQ
  \/ SaveP
  \/ TrainReturn
  \/ \E s \in Students, n \in NumberInputs : Sequential /\ GenerateRecommendations(s, n)
  \/ NextDay

SpecDays == Init /\ [][NextDays]_vars

\* Each university reloads its views and runs train_model in a thread of its
\* own, all at the same time.
NextUniversities ==
  \/ \E u \in Universities, adm \in AdmissionsInputs : ReloadRatingsOf(u, adm)
  \/ \E u \in Universities : TrainStepOf(u)

SpecUniversities == Init /\ [][NextUniversities]_vars

\* The sequential caller on the smaller university, for one epoch, with
\* courses leaving and joining the catalog.
CatalogInputs == {"MT1174"}
NextCatalog ==
  \/ \E e \in SmallEnrollmentInputs :
        /\ Sequential /\ e[1] \in catalog /\ FirstEnrollment(e[1], e[2])
        /\ AddStudent(e[1], e[2])
  \/ \E s \in Students, e \in Courses \X (1..MaxEnrollments), r \in {10},
        reload \in BOOLEAN : Sequential /\ RateCourse(s, e, r, reload)
  \/ Sequential /\ ReloadRatings
  \/ \E reg \in RegularizationParameters, epochs \in {1}, lr \in LearningRates :
        TrainModel(reg, epochs, lr)
  \/ SGDStep
  \/ EpochError
  \/ SaveQ
  \/ SaveP
  \/ TrainReturn
  \/ \E s \in Students, n \in {1, 3} : Sequential /\ GenerateRecommendations(s, n)
  \/ \E c \in CatalogInputs : Sequential /\ AddCourse(c)
  \/ \E c \in CatalogInputs : Sequential /\ DeleteCourse(c)

SpecCatalog == Init /\ [][NextCatalog]_vars

(* ------------------------------ claims -------------------------------- *)
\* student.enrollments within the columns of the matrix, and the complement.
Complement(student) == student_course_file.columns \ EnrolledIn(student)

UntrainedGenerateFails ==
  ~completed =>
     /\ recommendations = <<>>
     /\ (ret.op = "generate_recommendations" /\ ret.n \in 1..3) =>
           (ret.status = "AssertionError" /\ ret.value = <<>>)

\* C2 happens: the views are loaded, no training has completed and a call
\* with a valid number was made.
UntrainedGenerateCalled ==
  /\ ~completed
  /\ student_course_file.header
  /\ ret.op = "generate_recommendations"
  /\ ret.n = 3
  /\ ret.status = "AssertionError"

\* Claim C3: generate_recommendations with number_recommendations outside
\* 1..3 fails with the assertion of line 212, whether the model is trained or
\* not, returns nothing and adds no Recommendation.
InvalidNumberFails ==
  [][(ret'.op = "generate_recommendations" /\ ret'.n \notin 1..3) =>
       /\ ret'.status = "AssertionError"
       /\ ret'.value = <<>>
       /\ recommendations' = recommendations]_vars

\* C3 happens: the model is trained, the student has a row in P and a course
\* left, and four recommendations were asked for.
InvalidNumberCalledWhenTrained ==
  /\ trained
  /\ ret.op = "generate_recommendations"
  /\ ret.n = 4
  /\ ret.status = "AssertionError"
  /\ HasRow(parameters.P, ret.student)
  /\ Complement(ret.student) # {}

\* Claim C4: while the known-ratings file is empty, a train_model call runs no
\* epoch, writes neither Q nor P and does not return normally.
EmptyKnownRatingsFailFast ==
  (ret.op = "train_model" /\ known_ratings_file = <<>>) =>
     /\ ret.status # "ok"
     /\ pc \notin {"save_Q", "save_P", "set_trained"}
     /\ pc = "sgd" => (run.epoch = 0 /\ run.errors = <<>>)

\* The rating linked to recommendation i, as a set of verdicts.
VerdictsOf(rows, i) ==
  {rows[j].rating : j \in {k \in 1..Len(rows) : rows[k].recommendation = i}}

\* Claim C5: an add_rating call on a Recommendation that already has a rating
\* fails and leaves every RecommendationRating row as it was.
SecondAddRatingFails ==
  [][(ret'.op = "add_rating" /\ RatingsOf(ret'.n) # {}) =>
       /\ ret'.status # "ok"
       /\ recommendation_ratings' = recommendation_ratings]_vars

\* Claim C6: trained is False until a train_model call has completed; it
\* changes only from False to True, in the step that returns from train_model
\* with the files of Q and P holding the trained matrices; every other step,
\* a train_model call that raises included, leaves it as it is.
TrainedOnlyAfterSave ==
  /\ [](~completed => ~trained)
  /\ [][/\ trained' # trained =>
              /\ ~trained /\ trained'
              /\ pc = "set_trained"
              /\ completed'
              /\ Q_file = ToCsv(run.Q) /\ Q_file' = Q_file
              /\ P_file = ToCsv(run.P) /\ P_file' = P_file
        /\ (ret'.op = "train_model" /\ ret'.status \notin {"ok", "running"}) =>
              trained' = trained
        /\ trained => trained']_vars

\* C6 happens: the model is trained and a later train_model call has raised.
TrainFailedWhenTrained ==
  /\ trained
  /\ completed
  /\ ret.op = "train_model"
  /\ ret.status = "KeyError"

\* Claim C7: a train_model call with epochs > 0 on a non-empty known-ratings
\* file ends after exactly epochs epochs and returns one error per epoch.
TrainRunsExactlyEpochs ==
  (ret.op = "train_model" /\ ret.n > 0 /\ known_ratings_file # <<>>) =>
     /\ ret.status \in {"running", "ok"}
     /\ ret.status = "ok" => Len(ret.value) = ret.n
     /\ pc = "sgd" => (run.epoch < run.epochs /\ Len(run.errors) = run.epoch)
     /\ pc \in {"save_Q", "save_P", "set_trained"} =>
           (run.epoch = run.epochs /\ Len(run.errors) = run.epochs)

\* Claim C8: when the model is trained and the student is enrolled in every
\* course of the matrix, generate_recommendations with a valid number returns
\* the empty list.
EmptyComplementReturnsEmptyList ==
  (/\ ret.op = "generate_recommendations"
   /\ ret.n \in 1..3
   /\ trained
   /\ student_course_file.header
   /\ Complement(ret.student) = {}) =>
     (ret.status = "ok" /\ ret.value = <<>>)

\* Claim C9: a rate_course call with a rating outside 1..10, or with an
\* enrollment of another student, raises and leaves every course_rating and
\* both view files unchanged; an add_rating call with a value that is not a
\* member of Ratings raises and leaves the RecommendationRating rows unchanged.
RejectedInputChangesNothing ==
  [][/\ \A s \in Students, e \in Enrollments, r \in RatingInputs, reload \in BOOLEAN :
          (/\ RateCourse(s, e, r, reload)
           /\ (r \notin 1..10 \/ admissions[e[1]][e[2]].student # s)) =>
             /\ ret'.status = "AssertionError"
             /\ UNCHANGED <<admissions, student_course_file, known_ratings_file>>
     /\ \A i \in 1..Len(recommendations), v \in RatingValueInputs \ Ratings :
          AddRating(i, v) =>
             /\ ret'.status = "AssertionError"
             /\ UNCHANGED <<recommendations, recommendation_ratings>>]_vars

\* C9 happens: a rate_course call was rejected in a state where some other
\* enrollment carries a rating and the views hold it.
RateCourseRejected ==
  /\ ret.op = "rate_course"
  /\ ret.status = "AssertionError"
  /\ known_ratings_file # <<>>
  /\ \E e \in Enrollments : admissions[e[1]][e[2]].course_rating = NoRating

\* Claim C10: every Recommendation has at most one RecommendationRating linked
\* to it, and once it has one the verdict linked to it stays what it is.
RatingIsImmutable ==
  /\ [](\A i \in 1..Len(recommendations) : Cardinality(RatingsOf(i)) <= 1)
  /\ [][\A i \in 1..Len(recommendations) :
          RatingsOf(i) # {} =>
             VerdictsOf(recommendation_ratings', i) = VerdictsOf(recommendation_ratings, i)]_vars

\* The rating of the last admission of the student that reload_ratings scans
\* in the course (NoRating when that admission has none).
LastScanned(student, course) ==
  LET at == {i \in 1..Len(admissions[course]) : admissions[course][i].student = student}
      last == CHOOSE i \in at : \A j \in at : j <= i
  IN admissions[course][last].course_rating

\* Claim C11: reload_ratings does not fail when a student has two enrollments
\* in one course, and the cell of the matrix for that student and course then
\* holds the rating of the enrollment scanned last.
ReloadToleratesDuplicates ==
  ret.op = "reload_ratings" =>
     /\ ret.status = "ok"
     /\ \A c \in Courses : \A s \in StudentsOf(c) :
          /\ <<s, c>> \in DOMAIN student_course_file.cells
          /\ student_course_file.cells[<<s, c>>] = LastScanned(s, c)

\* Claim C12: a generate_recommendations call that returns while train_model
\* is retraining scores with a Q file and a P file of one training run: it
\* never reads them between lines 190 and 191, where the Q file is of the run
\* in progress and the P file still of the run before.
GenerateReadsOneRun ==
  [][(/\ ret' # ret \/ recommendations' # recommendations
      /\ ret'.op = "generate_recommendations"
      /\ ret'.status = "ok") =>
        ~(pc = "save_P" /\ Q_file = ToCsv(run.Q) /\ P_file # ToCsv(run.P))]_vars

\* Claim C13: the correctness_probability of every Recommendation, the
\* predicted rating divided by 20, lies in [0, 1].
ProbabilityInUnitInterval ==
  \A i \in 1..Len(recommendations) :
     /\ recommendations[i].correctness_probability_x20 >= 0
     /\ recommendations[i].correctness_probability_x20 <= 20 * Scale

\* A step of the loop of lines 143-164 that has applied an update.
IsSGDStep == pc = "sgd" /\ pc' = "sgd" /\ run'.epoch = run.epoch /\ run'.line = run.line + 1

\* Claim C14: an SGD step for the rating (m, i, r) leaves
\* Q[i] = q + eta*(epsilon*p - 2*lambda*q) and P[m] = p + eta*(epsilon*q - 2*lambda*p)
\* with epsilon = 2*(r - q.p), where q and p are the rows of Q[i] and P[m]
\* before the step.
BothUpdatesFromPreUpdateRows ==
  [][IsSGDStep =>
       LET m == known_ratings_file[run.line][1]
           i == known_ratings_file[run.line][2]
           r == known_ratings_file[run.line][3][1]
           q == run.Q.rows[i]
           p == run.P.rows[m]
           eta == run.learning_rate
           lambda == run.regularization_parameter
           epsilon == 2 * (r * Scale - SumSeq([k \in 1..NumFactors |-> q[k] * p[k]]) \div Scale)
       IN \A k \in 1..NumFactors :
            /\ run'.Q.rows[i][k] =
                 q[k] + (eta * ((epsilon * p[k]) \div Scale - (2 * lambda * q[k]) \div 1000)) \div 1000
            /\ run'.P.rows[m][k] =
                 p[k] + (eta * ((epsilon * q[k]) \div Scale - (2 * lambda * p[k]) \div 1000)) \div 1000]_vars

\* C14 happens: in the second epoch the first rating has been processed, from
\* rows that the first epoch had moved away from their initial values.
SecondEpochStepTaken ==
  /\ pc = "sgd"
  /\ run.epoch = 1
  /\ run.line = 2
  /\ run.Q.rows[known_ratings_file[1][2]][1] \notin InitValues
  /\ run.P.rows[known_ratings_file[1][1]][1] \notin InitValues

\* Claim C15: train_model starts its first epoch at the first line of the
\* known-ratings file; a step of an epoch processes the next line of the file
\* and changes no row of Q and P but those of that line's course and student;
\* an epoch ends only after the last line, keeps Q and P as the last step
\* left them, and the next epoch starts at the first line again.
EpochIsOnePassInFileOrder ==
  [][/\ (pc = "idle" /\ pc' = "sgd") => (run'.epoch = 0 /\ run'.line = 1)
     /\ (pc = "sgd" /\ pc' # "idle") =>
          \/ /\ IsSGDStep
             /\ run.line \in 1..Len(known_ratings_file)
             /\ run'.Q.index = run.Q.index /\ run'.P.index = run.P.index
             /\ \A c \in run.Q.index \ {known_ratings_file[run.line][2]} :
                  run'.Q.rows[c] = run.Q.rows[c]
             /\ \A m \in run.P.index \ {known_ratings_file[run.line][1]} :
                  run'.P.rows[m] = run.P.rows[m]
          \/ /\ run.line = Len(known_ratings_file) + 1
             /\ run'.epoch = run.epoch + 1
             /\ run'.line = 1
             /\ run'.Q = run.Q /\ run'.P = run.P
             /\ pc' = IF run'.epoch = run.epochs THEN "save_Q" ELSE "sgd"]_vars

\* C15 happens: the second epoch has processed both lines of a file of two
\* ratings that share a student or a course.
SecondEpochPassDone ==
  /\ pc = "sgd"
  /\ run.epoch = 1
  /\ Len(known_ratings_file) = 2
  /\ run.line = 3
  /\ \/ known_ratings_file[1][1] = known_ratings_file[2][1]
     \/ known_ratings_file[1][2] = known_ratings_file[2][2]

\* The sum of f over the finite set S.
RECURSIVE SumOver(_, _)
SumOver(f, S) ==
  IF S = {} THEN 0
  ELSE LET x == CHOOSE y \in S : TRUE IN f[x] + SumOver(f, S \ {x})

\* The squares of all the entries of a matrix, summed (lines 182-183).
AllEntriesSquared(M) ==
  LET entries == M.index \X (1..NumFactors)
  IN SumOver([e \in entries |-> (M.rows[e[1]][e[2]] * M.rows[e[1]][e[2]]) \div Scale],
             entries)

\* The rows of a matrix that no line of the known-ratings file names.
UnratedRows(M) ==
  {x \in M.index : \A i \in 1..Len(known_ratings_file) :
                     x \notin {known_ratings_file[i][1], known_ratings_file[i][2]}}

\* Claim C16: the error that ends an epoch is computed from Q and P as the
\* last update of the epoch left them: it is the sum over all the known
\* ratings of the squared difference between the rating and the prediction,
\* plus the regularization parameter times the sum of the squares of every
\* entry of Q and of P, the rows without a known rating included.
EpochErrorOverAllRatingsAndEntries ==
  [][(pc = "sgd" /\ pc' # "idle" /\ run'.epoch = run.epoch + 1) =>
       /\ run.line = Len(known_ratings_file) + 1
       /\ run'.Q = run.Q /\ run'.P = run.P
       /\ Len(run'.errors) = Len(run.errors) + 1
       /\ run'.errors[Len(run'.errors)] =
            SumOver([i \in 1..Len(known_ratings_file) |->
                       LET r == known_ratings_file[i][3][1] * Scale
                           q == run.Q.rows[known_ratings_file[i][2]]
                           p == run.P.rows[known_ratings_file[i][1]]
                           prediction == SumOver([k \in 1..NumFactors |-> q[k] * p[k]],
                                                 1..NumFactors) \div Scale
                       IN ((r - prediction) * (r - prediction)) \div Scale],
                    1..Len(known_ratings_file))
            + (run.regularization_parameter * AllEntriesSquared(run.Q)) \div 1000
            + (run.regularization_parameter * AllEntriesSquared(run.P)) \div 1000]_vars

\* C16 happens: an epoch error has been appended in a run whose Q and P
\* each have a nonzero row that no known rating names.
ErrorCountsUnratedRows ==
  /\ pc = "save_Q"
  /\ Len(run.errors) = run.epochs
  /\ known_ratings_file # <<>>
  /\ \E c \in UnratedRows(run.Q) : run.Q.rows[c][1] # 0
  /\ \E m \in UnratedRows(run.P) : run.P.rows[m][1] # 0

\* The lines of the known-ratings file that the next step of the training
\* reads: the next line in the pass of the updates, every line in the pass of
\* the epoch error.
LinesReadNext ==
  IF run.line <= Len(known_ratings_file)
  THEN {run.line}
  ELSE 1..Len(known_ratings_file)

\* Some line the training reads next names a course without a row in Q or a
\* student without a row in P.
ReadsLineWithoutRow ==
  /\ pc = "sgd"
  /\ \E i \in LinesReadNext : \/ known_ratings_file[i][2] \notin run.Q.index
                               \/ known_ratings_file[i][1] \notin run.P.index

\* A step of the thread that runs train_model, from inside its epochs.
IsTrainingStep ==
  /\ pc = "sgd"
  /\ \/ pc' # "sgd"
     \/ run'.line # run.line
     \/ run'.epoch # run.epoch

\* Claim C17: when the training reads a line of the known-ratings file that
\* names a course without a row in Q or a student without a row in P (the
\* views were rewritten after train_model read the matrix), train_model
\* raises instead of passing over the rating, and the trained flag and the
\* saved Q and P stay as they were.
MissingRowFailsTraining ==
  [][(ReadsLineWithoutRow /\ IsTrainingStep) =>
       /\ pc' = "idle"
       /\ ret'.op = "train_model"
       /\ ret'.status = "KeyError"
       /\ trained' = trained
       /\ Q_file' = Q_file
       /\ P_file' = P_file]_vars

\* C17 happens: train_model has just raised for a line whose student is not
\* in the matrix as a number, after the views were rewritten with a rating of
\* a student or a course that enrolled during the training.
TrainFailedOnMissingRow ==
  /\ pc = "idle"
  /\ ret.op = "train_model"
  /\ ret.status = "KeyError"
  /\ known_ratings_file # <<>>
  /\ \A i \in 1..Len(known_ratings_file) : known_ratings_file[i][1] \notin NumericLooking

\* Claim C18: a generate_recommendations call for a student without a row in
\* the saved P, or with a course of the complement without a row in the saved
\* Q, raises and returns no recommendation: the missing row is neither scored
\* nor left out of a list that is returned.
MissingRowFailsGenerate ==
  (/\ ret.op = "generate_recommendations"
   /\ \/ ret.student \notin P_file.index
      \/ \E c \in Complement(ret.student) : c \notin Q_file.index)
  => (ret.status # "ok" /\ ret.value = <<>>)

\* C18 happens: the model is trained and the student has a row in the saved
\* P, a course that joined the matrix after the training has no row in the
\* saved Q, and generate_recommendations has raised KeyError.
GenerateFailedOnMissingCourse ==
  /\ ret.op = "generate_recommendations"
  /\ ret.status = "KeyError"
  /\ trained
  /\ HasRow(parameters.P, ret.student)
  /\ \E c \in Complement(ret.student) : c \notin Q_file.index
  /\ \E c \in Complement(ret.student) : c \in Q_file.index

\* The predicted rating of a course for a student from the saved Q and P.
PredictedScore(course, student) ==
  SumOver([k \in 1..NumFactors |-> Q_file.rows[course][k] * P_file.rows[student][k]],
          1..NumFactors) \div Scale

\* The courses of the list a generate_recommendations call returned.
Listed == {ret.value[i].course : i \in 1..Len(ret.value)}

\* Claim C19: the list generate_recommendations returns carries for each
\* course the product of its row of Q with the student's row of P, in an
\* order in which that score does not increase, and no course of the
\* complement that the list leaves out has a greater score than a listed one.
ListIsTopByPredictedScore ==
  (pc = "idle" /\ ret.op = "generate_recommendations" /\ ret.status = "ok") =>
    /\ \A i \in 1..Len(ret.value) :
         ret.value[i].correctness_probability_x20 =
           PredictedScore(ret.value[i].course, ret.student)
    /\ \A i \in 1..Len(ret.value) : \A j \in (i + 1)..Len(ret.value) :
         ret.value[i].correctness_probability_x20 >=
           ret.value[j].correctness_probability_x20
    /\ \A c \in Complement(ret.student) \ Listed : \A i \in 1..Len(ret.value) :
         PredictedScore(c, ret.student) <= ret.value[i].correctness_probability_x20

\* C19 happens: a list was returned that leaves out a course of the
\* complement with a smaller score than the listed one.
LowerScoredCourseLeftOut ==
  /\ pc = "idle"
  /\ ret.op = "generate_recommendations"
  /\ ret.status = "ok"
  /\ Len(ret.value) >= 1
  /\ \E c \in Complement(ret.student) \ Listed :
       PredictedScore(c, ret.student) < ret.value[Len(ret.value)].correctness_probability_x20

\* The enrollments of the university's courses as (student, course, rating),
\* and those of them whose rating is set.
EnrollmentTriples ==
  {<<admissions[e[1]][e[2]].student, e[1], admissions[e[1]][e[2]].course_rating>> :
     e \in Enrollments}
RatedEnrollmentTriples == {t \in EnrollmentTriples : t[3] # NoRating}

\* Claim C20: when reload_ratings has completed, the matrix has one row for
\* each student and one column for each course of some enrollment and no
\* other, the cell of a student and a course holds the rating of that
\* enrollment, or nothing when the rating is not set or there is no such
\* enrollment, and the known-ratings file has one line for each enrollment
\* whose rating is set and no other line.
ReloadMirrorsEnrollments ==
  (ret.op = "reload_ratings" /\ ret.status = "ok") =>
    /\ student_course_file.header
    /\ student_course_file.index = {t[1] : t \in EnrollmentTriples}
    /\ student_course_file.columns = {t[2] : t \in EnrollmentTriples}
    /\ DOMAIN student_course_file.cells =
         student_course_file.index \X student_course_file.columns
    /\ \A t \in EnrollmentTriples : student_course_file.cells[<<t[1], t[2]>>] = t[3]
    /\ \A k \in DOMAIN student_course_file.cells :
         (\A t \in EnrollmentTriples : <<t[1], t[2]>> # k)
           => student_course_file.cells[k] = NoRating
    /\ {known_ratings_file[i] : i \in 1..Len(known_ratings_file)} = RatedEnrollmentTriples
    /\ Len(known_ratings_file) = Cardinality(RatedEnrollmentTriples)

\* C20 happens: reload_ratings has completed with an enrollment whose rating
\* is set, one whose rating is not, and a student and a course of the matrix
\* without an enrollment between them.
ReloadedRatedAndUnrated ==
  /\ ret.op = "reload_ratings"
  /\ ret.status = "ok"
  /\ RatedEnrollmentTriples # {}
  /\ RatedEnrollmentTriples # EnrollmentTriples
  /\ \E k \in DOMAIN student_course_file.cells :
       \A t \in EnrollmentTriples : <<t[1], t[2]>> # k

\* Claim C21: every recommendation a generate_recommendations call adds has
\* the date of the day of the call as its date_generated, on the day the
\* program started and on a later day alike, and has no rating.
DateGeneratedIsDayOfCall ==
  [][(ret'.op = "generate_recommendations" /\ Len(recommendations') > Len(recommendations))
       => \A i \in (Len(recommendations) + 1)..Len(recommendations') :
            /\ recommendations'[i].date_generated = today
            /\ \A j \in 1..Len(recommendation_ratings') :
                 recommendation_ratings'[j].recommendation # i]_vars

\* Claim C22: the matrix file and the known-ratings file change only in a
\* step of reload_ratings or of rate_course, and a rate_course called with
\* reload_ratings=False leaves them as they were; add_student, train_model,
\* generate_recommendations and add_rating never change them.
ViewsChangeOnlyOnReload ==
  [][/\ (student_course_file' # student_course_file \/
         known_ratings_file' # known_ratings_file)
          => (ret'.op \in {"reload_ratings", "rate_course"} /\ ret'.status = "ok")
     /\ \A s \in Students, e \in Enrollments, r \in RatingInputs :
          RateCourse(s, e, r, FALSE)
            => (student_course_file' = student_course_file /\
                known_ratings_file' = known_ratings_file)]_vars

\* C22 happens: a rating set by rate_course without a reload is in the
\* database and not in the known-ratings file.
ViewsStaleAfterRateCourse ==
  /\ ret.op = "rate_course"
  /\ ret.status = "ok"
  /\ student_course_file.header
  /\ \E t \in RatedEnrollmentTriples :
       \A i \in 1..Len(known_ratings_file) : known_ratings_file[i] # t

\* Every entry of the matrix is a value np.random.uniform may draw.
FreshlyInitialised(M, index) ==
  /\ M.index = index
  /\ \A k \in index : \A f \in 1..NumFactors : M.rows[k][f] \in InitValues

\* Claim C23: the saved Q and P change only in the saving steps of a
\* train_model call, which write the Q and the P of that run; the run started
\* from freshly drawn matrices whatever was saved before; a call that has
\* begun to save returns normally, so a train_model call that raises, and
\* every other operation, leave the saved Q and P as they were.
ParametersChangeOnlyOnCompletedTraining ==
  [][/\ Q_file' # Q_file =>
          (pc = "save_Q" /\ Q_file'.exists /\ Q_file'.index = run.Q.index
                         /\ Q_file'.rows = run.Q.rows)
     /\ P_file' # P_file =>
          (pc = "save_P" /\ P_file'.exists /\ P_file'.index = run.P.index
                         /\ P_file'.rows = run.P.rows)
     /\ (pc \in {"save_Q", "save_P", "set_trained"} /\ pc' = "idle") =>
          /\ ret'.op = "train_model" /\ ret'.status = "ok"
          /\ Q_file'.index = run.Q.index /\ Q_file'.rows = run.Q.rows
          /\ P_file'.index = run.P.index /\ P_file'.rows = run.P.rows
     /\ (pc = "idle" /\ pc' # "idle") =>
          /\ FreshlyInitialised(run'.Q, student_course_file.columns)
          /\ FreshlyInitialised(run'.P, student_course_file.index)]_vars

\* C23 happens: a train_model call has started while the saved Q holds a row
\* that an earlier run moved away from every initial value.
SecondRunStartsFresh ==
  /\ pc = "sgd"
  /\ run.epoch = 0
  /\ run.line = 1
  /\ Q_file.exists
  /\ \E c \in Q_file.index \cap run.Q.index : Q_file.rows[c][1] \notin InitValues

\* The paths of the files of the system of university u.
PathsOf(u) ==
  {systems[u].student_course_matrix_path, systems[u].known_ratings_matrix_path,
   systems[u].model_parameters_path_Q, systems[u].model_parameters_path_P}

\* Claim C24: when the systems of different universities train at the same
\* time, each with a list of its own, a run that returns has extended its
\* list by its epoch errors, one per epoch in the order of the epochs, which
\* are also what it returns; and no step of a run touches a file, the
\* trained flag, the run or the list of another university, all the files a
\* run works on being files of no other university.
RunsOfUniversitiesAreIndependent ==
  [][\A u \in Universities :
       TrainStepOf(u) =>
         /\ \A v \in Universities \ {u} :
              /\ PathsOf(u) \cap PathsOf(v) = {}
              /\ \A path \in PathsOf(v) : files'[path] = files[path]
              /\ systems'[v] = systems[v]
              /\ thread_errors'[v] = thread_errors[v]
         /\ (systems[u].pc = "sgd" /\ systems'[u].pc \in {"sgd", "save_Q"}
               /\ systems'[u].run.epoch # systems[u].run.epoch) =>
              /\ Len(systems'[u].run.errors) = systems'[u].run.epoch
              /\ SubSeq(systems'[u].run.errors, 1, systems[u].run.epoch)
                   = systems[u].run.errors
         /\ (systems[u].pc = "set_trained") =>
              /\ Len(systems[u].run.errors) = systems[u].run.epochs
              /\ thread_errors'[u] = thread_errors[u] \o systems[u].run.errors
              /\ systems'[u].returned = systems[u].run.errors]_vars

\* C24 happens: the run of one university has returned for the second time,
\* its list holding the errors of both runs, while the run of another
\* university is between saving Q and saving P.
RunReturnedWhileOtherSaves ==
  /\ systems["uni1"].pc = "idle"
  /\ systems["uni1"].trained
  /\ Len(thread_errors["uni1"]) > Len(systems["uni1"].returned)
  /\ systems["uni2"].pc = "save_P"

\* Claim C25: every recommendation a generate_recommendations call returns
\* has a course, and that course is on offer at the university at the time
\* of the call, whatever courses were added or deleted since the last reload.
RecommendedCourseIsOnOffer ==
  (ret.op = "generate_recommendations" /\ ret.status = "ok") =>
    \A i \in 1..Len(ret.value) :
      ret.value[i].course # None /\ ret.value[i].course \in catalog

====
